---- MODULE Spec2Model ----
(***************************************************************************)
(* openvr-tracker: the device registry (VrDeviceManager), the per-device   *)
(* record (VrDevice), the classifier (VrDeviceClass::from_openvr_types),   *)
(* the pose transform (OpenVRPose for [[f32; 4]; 3]) and the poll loop of  *)
(* main, which publishes the seen devices over multicast UDP.              *)
(*                                                                         *)
(* Matrix entries are small integers (exactly representable in f32).  A    *)
(* 3x4 matrix is a sequence of 3 rows of 4 entries, so the source's        *)
(* m[r][c] is m[r+1][c+1] here.                                            *)
(***************************************************************************)
EXTENDS Integers, Sequences, FiniteSets, TLC

\* Length of the pose array returned by the hardware (64 in OpenVR).
NumSlots == 2

Slots == 0 .. (NumSlots - 1)

\* openvr::TrackedDeviceClass and openvr::TrackedControllerRole
TrackedDeviceClass ==
    {"Invalid", "HMD", "Controller", "GenericTracker", "TrackingReference",
     "DisplayRedirect"}

TrackedControllerRole == {"LeftHand", "RightHand"}

\* Option::None of get_controller_role_for_tracked_device_index
None == "None"

OptionRole == TrackedControllerRole \cup {None}

VrDeviceClass ==
    {"Controller", "LeftController", "RightController", "Tracker", "HMD",
     "Sensor", "Other"}

(***************************************************************************)
(* Pose matrices the hardware reports.                                     *)
(***************************************************************************)
IdentityMatrix == << <<1, 0, 0, 0>>, <<0, 1, 0, 0>>, <<0, 0, 1, 0>> >>

\* the matrix of tests::test_matrix_layout
LayoutMatrix == << <<0, 1, 2, 3>>, <<4, 5, 6, 7>>, <<8, 9, 10, 11>> >>

\* a quarter turn about the third axis, same translation column as LayoutMatrix
TurnMatrix == << <<0, -1, 0, 3>>, <<1, 0, 0, 7>>, <<0, 0, 1, 11>> >>

\* a half turn about the first axis with a translation of its own
FlipMatrix == << <<1, 0, 0, -2>>, <<0, -1, 0, 5>>, <<0, 0, -1, 0>> >>

Matrices == {IdentityMatrix, LayoutMatrix, TurnMatrix, FlipMatrix}

(***************************************************************************)
(* VrDeviceClass::from_openvr_types                                        *)
(***************************************************************************)
from_openvr_types_swapped(device_class, controller) ==
    CASE device_class = "HMD" -> "HMD"
      [] device_class = "Controller" ->
            IF controller # None
            THEN CASE controller = "LeftHand" -> "RightController"
                   [] controller = "RightHand" -> "LeftController"
            ELSE "Controller"
      [] device_class = "GenericTracker" -> "Tracker"
      [] device_class = "TrackingReference" -> "Sensor"
      [] OTHER -> "Other"

from_openvr_types(device_class, controller) ==
    CASE device_class = "HMD" -> "HMD"
      [] device_class = "Controller" ->
            IF controller # None
            THEN CASE controller = "LeftHand" -> "LeftController"
                   [] controller = "RightHand" -> "RightController"
            ELSE "Controller"
      [] device_class = "GenericTracker" -> "Tracker"
      [] device_class = "TrackingReference" -> "Sensor"
      [] OTHER -> "Other"

(***************************************************************************)
(* OpenVRPose for [[f32; 4]; 3]                                            *)
(***************************************************************************)
to_position_unmapped(m) ==
    LET x == m[1][4]
        y == m[2][4]
        z == m[3][4]
    IN  [x |-> x, y |-> y, z |-> z]

to_position(m) ==
    LET x == m[1][4]
        y == m[2][4]
        z == m[3][4]
    IN  [x |-> z, y |-> x, z |-> y]

\* 0_f32.max(v)
Max0(v) == IF v > 0 THEN v ELSE 0

\* c.copysign(d) on the radicand of c: the sign of d, +0.0 counting as positive
CopySign(r, d) == IF d >= 0 THEN r ELSE -r

(***************************************************************************)
(* to_rotation.  A component sqrt(r)/2 is kept as its radicand r, signed   *)
(* by copysign; UnitQuaternion::from_quaternion divides every component by *)
(* the norm sqrt(n)/2, n being the sum of the four radicands, so the unit  *)
(* quaternion is (sign(c) * sqrt(|c| / n)) for c in (w, i, j, k).          *)
(* Quaternion::new(w, k, i, j) puts the source's k, i, j into the          *)
(* quaternion's i, j, k.                                                   *)
(***************************************************************************)
to_rotation(m) ==
    LET w == Max0(1 + m[1][1] + m[2][2] + m[3][3])
        i0 == Max0(1 + m[1][1] - m[2][2] - m[3][3])
        j0 == Max0(1 - m[1][1] + m[2][2] - m[3][3])
        k0 == Max0(1 - m[1][1] - m[2][2] + m[3][3])
        i == CopySign(i0, m[3][2] - m[2][3])
        j == CopySign(j0, m[1][3] - m[3][1])
        k == CopySign(k0, m[2][1] - m[1][2])
    IN  [w |-> w, i |-> k, j |-> i, k |-> j, n |-> w + i0 + j0 + k0]

\* na::UnitQuaternion::identity()
IdentityRotation == [w |-> 4, i |-> 0, j |-> 0, k |-> 0, n |-> 4]

(***************************************************************************)
(* VrDevice                                                                *)
(***************************************************************************)
VrDevice_new_shifted(id) ==
    [id |-> id + 1, tracked |-> FALSE, seen |-> FALSE,
     position |-> [x |-> 0, y |-> 0, z |-> 0],
     rotation |-> IdentityRotation, class |-> "Other"]

VrDevice_new(id) ==
    [id |-> id, tracked |-> FALSE, seen |-> FALSE,
     position |-> [x |-> 0, y |-> 0, z |-> 0],
     rotation |-> IdentityRotation, class |-> "Other"]

\* seen follows tracked instead of latching
VrDevice_update_unlatched(self, tracked, pose, class) ==
    [id |-> self.id, tracked |-> tracked, seen |-> tracked,
     position |-> to_position(pose), rotation |-> to_rotation(pose),
     class |-> class]

\* pose and class kept when the device is not tracked
VrDevice_update_stale(self, tracked, pose, class) ==
    [id |-> self.id, tracked |-> tracked,
     seen |-> IF tracked THEN TRUE ELSE self.seen,
     position |-> IF tracked THEN to_position(pose) ELSE self.position,
     rotation |-> IF tracked THEN to_rotation(pose) ELSE self.rotation,
     class |-> IF tracked THEN class ELSE self.class]

VrDevice_update(self, tracked, pose, class) ==
    [id |-> self.id, tracked |-> tracked,
     seen |-> IF tracked THEN TRUE ELSE self.seen,
     position |-> to_position(pose), rotation |-> to_rotation(pose),
     class |-> class]

(***************************************************************************)
(* What the hardware reports for one slot in one poll:                     *)
(*   connected  is_tracked_device_connected(index)                        *)
(*   valid      TrackedDevicePose::pose_is_valid()                         *)
(*   matrix     TrackedDevicePose::device_to_absolute_tracking()           *)
(*   class      tracked_device_class(index)                                *)
(*   role       get_controller_role_for_tracked_device_index(index)        *)
(***************************************************************************)
RawEntry(c, v, m, dc, r) ==
    [connected |-> c, valid |-> v, matrix |-> m, class |-> dc, role |-> r]

\* every class and role, on a connected device with a valid pose
ClassEntries ==
    {RawEntry(TRUE, TRUE, LayoutMatrix, dc, r) :
        dc \in TrackedDeviceClass, r \in OptionRole}

\* every combination of the two flags
FlagEntries ==
    {RawEntry(c, v, FlipMatrix, "GenericTracker", None) :
        c \in BOOLEAN, v \in BOOLEAN}

\* every matrix, on a connected device with a valid pose
MatrixEntries ==
    {RawEntry(TRUE, TRUE, m, "HMD", None) : m \in Matrices}

RawEntries == ClassEntries \cup FlagEntries \cup MatrixEntries

is_pose_valid(e) == e.valid

is_tracked_device_connected(e) == e.connected

VARIABLES
    devices,      \* VrDeviceManager.devices: slot -> VrDevice
    poses,        \* what the hardware reported for each slot when last polled
    index,        \* position of the for loop of VrDeviceManager::update
    device_list,  \* the Vec returned by device_list() in this cycle
    trackers,     \* TrackedObjects.trackers of this cycle's message
    err,          \* the error main returned with, "none" while it runs
    pc            \* position of main's loop

vars == <<devices, poses, index, device_list, trackers, err, pc>>

Init ==
    /\ devices = << >>
    /\ poses = << >>
    /\ index = 0
    /\ device_list = << >>
    /\ trackers = << >>
    /\ err = "none"
    /\ pc = "update"

\* self.devices.entry(index).or_insert_with(|| VrDevice::new(index))
or_insert(map, k) ==
    IF k \in DOMAIN map THEN map
    ELSE [j \in DOMAIN map \cup {k} |-> IF j = k THEN VrDevice_new(k) ELSE map[j]]

(***************************************************************************)
(* VrDeviceManager::update, one iteration of its for loop per step; the    *)
(* loop runs over the whole pose array before main goes on.                *)
(***************************************************************************)
update ==
    /\ pc = "update"
    /\ \E e \in RawEntries :
          LET inserted == or_insert(devices, index)
              tracked == is_tracked_device_connected(e)
              class == from_openvr_types(e.class, e.role)
              pose == e.matrix
          IN  /\ devices' = [inserted EXCEPT
                               ![index] = VrDevice_update(@, tracked, pose, class)]
              /\ poses' = [j \in DOMAIN poses \cup {index} |->
                              IF j = index THEN e ELSE poses[j]]
    /\ IF index + 1 < NumSlots
       THEN /\ index' = index + 1
            /\ pc' = pc
       ELSE /\ index' = 0
            /\ pc' = "device_list"
    /\ UNCHANGED <<device_list, trackers, err>>

\* the orders in which a HashMap may yield its values
Orders(map) ==
    {f \in [1 .. Cardinality(DOMAIN map) -> DOMAIN map] :
        \A a, b \in DOMAIN f : a # b => f[a] # f[b]}

\* slice::sort_by_key(|item| item.id()): a stable sort
Insert(sorted, d) ==
    LET n == Cardinality({a \in DOMAIN sorted : sorted[a].id <= d.id})
    IN  SubSeq(sorted, 1, n) \o <<d>> \o SubSeq(sorted, n + 1, Len(sorted))

RECURSIVE sort_by_key(_)

sort_by_key_skipped(s) == s

sort_by_key(s) ==
    IF s = << >> THEN << >>
    ELSE Insert(sort_by_key(SubSeq(s, 1, Len(s) - 1)), s[Len(s)])

\* .into_iter().filter(|object| object.seen()).collect()
filter_seen_all(list) == list

filter_seen(list) == SelectSeq(list, LAMBDA d : d.seen)

(***************************************************************************)
(* main: device_list(), the filter, and the assembly of the message        *)
(***************************************************************************)
snapshot ==
    /\ pc = "device_list"
    /\ \E order \in Orders(devices) :
          LET values == [a \in DOMAIN order |-> devices[order[a]]]
          IN  /\ device_list' = sort_by_key(values)
              /\ trackers' = filter_seen(sort_by_key(values))
    /\ pc' = "send"
    /\ UNCHANGED <<devices, poses, index, err>>

\* messenger.send(&json)?  when send_to succeeds
send_ok ==
    /\ pc = "send"
    /\ pc' = "sleep"
    /\ UNCHANGED <<devices, poses, index, device_list, trackers, err>>

send_err_swallowed ==
    /\ pc = "send"
    /\ err' = "send"
    /\ pc' = "sleep"
    /\ UNCHANGED <<devices, poses, index, device_list, trackers>>

\* messenger.send(&json)?  when send_to fails: main returns the error
send_err ==
    /\ pc = "send"
    /\ err' = "send"
    /\ pc' = "returned"
    /\ UNCHANGED <<devices, poses, index, device_list, trackers>>

\* sleep(Duration::from_millis(20)); the cycle's locals are dropped
sleep ==
    /\ pc = "sleep"
    /\ device_list' = << >>
    /\ trackers' = << >>
    /\ pc' = "update"
    /\ UNCHANGED <<devices, poses, index, err>>

Next == update \/ snapshot \/ send_ok \/ send_err \/ sleep

Spec == Init /\ [][Next]_vars

(***************************************************************************)
(* Properties                                                              *)
(***************************************************************************)
Registered == DOMAIN devices

\* the translation column of a pose matrix, m[0][3], m[1][3], m[2][3]
Translation(m) == <<m[1][4], m[2][4], m[3][4]>>

\* C1: seen is a one-way latch of tracked: after every step a device is seen
\* iff it was seen before the step or the step left it tracked; an entry
\* that did not exist before the step counts as not seen.  So seen is true
\* iff some ingest since the entry's creation set tracked, and it is never
\* reset.
C1_SeenLatch ==
    [][\A k \in DOMAIN devices' :
          devices'[k].seen <=>
              ((k \in DOMAIN devices /\ devices[k].seen) \/ devices'[k].tracked)]_vars

\* a published device that is seen although its latest ingest was not tracked
C1_Witness ==
    /\ pc = "send"
    /\ \E a \in DOMAIN trackers : trackers[a].seen /\ ~trackers[a].tracked

C3_SnapshotOrdered ==
    pc \in {"send", "sleep", "returned"} =>
        /\ Len(device_list) = Cardinality(Registered)
        /\ \A a \in 1 .. (Len(device_list) - 1) :
              device_list[a].id < device_list[a + 1].id
        /\ \A a \in DOMAIN device_list :
              /\ device_list[a].id \in Registered
              /\ device_list[a] = devices[device_list[a].id]
        /\ \A k \in Registered : \E a \in DOMAIN device_list : device_list[a].id = k

C3_Witness ==
    /\ pc = "send"
    /\ Len(device_list) >= 2
    /\ device_list[1].id = 0
    /\ device_list[2].id = 1

\* C4: the registry starts empty, no step removes a slot or changes an
\* entry's id, and the entry at slot k always has id k.
C4_RegistryGrows ==
    /\ devices = << >>
    /\ [](\A k \in Registered : devices[k].id = k)
    /\ [][/\ DOMAIN devices \subseteq DOMAIN devices'
          /\ \A k \in DOMAIN devices : devices'[k].id = devices[k].id]_vars

\* a later cycle's loop, part way through a registry that is already full
C4_Witness ==
    /\ pc = "update"
    /\ index = 1
    /\ Registered = Slots
    /\ \A k \in Registered : devices[k].id = k

\* C5: the published snapshot is exactly the registry's seen devices, as they
\* are after the cycle's ingest, in ascending id order.
C5_PublishedSeen ==
    pc = "send" =>
        /\ \A a \in DOMAIN trackers :
              /\ trackers[a].id \in Registered
              /\ trackers[a] = devices[trackers[a].id]
        /\ \A a \in 1 .. (Len(trackers) - 1) : trackers[a].id < trackers[a + 1].id
        /\ \A k \in Registered :
              devices[k].seen <=> \E a \in DOMAIN trackers : trackers[a].id = k

\* a never-seen slot in the registry, absent from a non-empty publication
C5_Witness ==
    /\ pc = "send"
    /\ Len(trackers) >= 1
    /\ \E k \in Registered :
          /\ ~devices[k].seen
          /\ \A a \in DOMAIN trackers : trackers[a].id # k

\* C6 as claimed: a failed send never terminates the loop.
C6_SendFailureContinues == err = "send" => pc # "returned"

\* C6 amended: a failed send is not retried and is returned from main: main
\* has returned whenever a send has failed, and no step follows.
C6_SendFailureReturns ==
    /\ [](err = "send" => pc = "returned")
    /\ [][err = "none"]_vars

C6_Witness ==
    /\ err = "send"
    /\ pc = "returned"
    /\ Registered = Slots

\* C7 as claimed: tracked equals the pose-validity flag of the latest poll.
C7_TrackedIsPoseValid ==
    \A k \in Registered : devices[k].tracked = poses[k].valid

\* C7 amended: tracked equals the device-connected flag of the latest poll,
\* whatever the pose-validity flag.
C7_TrackedIsConnected ==
    \A k \in Registered : devices[k].tracked = poses[k].connected

C7_Witness ==
    /\ \E k \in Registered :
          poses[k].valid /\ ~poses[k].connected /\ ~devices[k].tracked
    /\ \E k \in Registered :
          ~poses[k].valid /\ poses[k].connected /\ devices[k].tracked

\* C8: the class stored is one of the seven categories and follows the
\* table, the role mattering for Controller only.
C8_ClassifierTable ==
    \A k \in Registered :
        LET dc == poses[k].class
            r == poses[k].role
            c == devices[k].class
        IN  /\ c \in VrDeviceClass
            /\ dc = "HMD" => c = "HMD"
            /\ (dc = "Controller" /\ r = "LeftHand") => c = "LeftController"
            /\ (dc = "Controller" /\ r = "RightHand") => c = "RightController"
            /\ (dc = "Controller" /\ r = None) => c = "Controller"
            /\ dc = "GenericTracker" => c = "Tracker"
            /\ dc = "TrackingReference" => c = "Sensor"
            /\ dc \notin {"HMD", "Controller", "GenericTracker",
                          "TrackingReference"} => c = "Other"

C8_Witness ==
    /\ \E k \in Registered :
          /\ poses[k].class = "Controller" /\ poses[k].role = "RightHand"
          /\ devices[k].class = "RightController"
    /\ \E k \in Registered :
          /\ poses[k].class = "DisplayRedirect" /\ poses[k].role = "LeftHand"
          /\ devices[k].class = "Other"

\* C9: the position is read from the translation column alone, with
\* x = m[2][3], y = m[0][3], z = m[1][3]; the matrix 0..11 gives (11, 3, 7).
C9_PositionLayout ==
    /\ \A k \in Registered :
          LET m == poses[k].matrix
          IN  /\ devices[k].position.x = m[3][4]
              /\ devices[k].position.y = m[1][4]
              /\ devices[k].position.z = m[2][4]
              /\ m = LayoutMatrix =>
                    devices[k].position = [x |-> 11, y |-> 3, z |-> 7]
    /\ \A k, j \in Registered :
          Translation(poses[k].matrix) = Translation(poses[j].matrix) =>
              devices[k].position = devices[j].position

\* two matrices that differ in the rotation basis only give one position
C9_Witness ==
    \E k, j \in Registered :
        /\ poses[k].matrix = LayoutMatrix
        /\ poses[j].matrix = TurnMatrix
        /\ devices[k].position = [x |-> 11, y |-> 3, z |-> 7]
        /\ devices[j].position = devices[k].position

\* C10 as claimed: the position stored is the translation column in the
\* matrix's own axis order.
C10_PositionUnmapped ==
    \A k \in Registered :
        <<devices[k].position.x, devices[k].position.y, devices[k].position.z>>
            = Translation(poses[k].matrix)

\* C10 amended: the position stored by ingest, tracked or not, is the
\* translation column with the axes rotated: (y, z, x) = (m[0][3], m[1][3],
\* m[2][3]).
C10_PositionRemapped ==
    \A k \in Registered :
        <<devices[k].position.y, devices[k].position.z, devices[k].position.x>>
            = Translation(poses[k].matrix)

C10_Witness ==
    \E k \in Registered :
        /\ devices[k].tracked
        /\ poses[k].matrix = FlipMatrix
        /\ devices[k].position = [x |-> 0, y |-> -2, z |-> 5]

====
